---------------------------- MODULE Spec2Model ----------------------------
(***************************************************************************)
(* Lexer, Pratt parser, AST printer and REPL of JFFMonkeyLang.             *)
(*                                                                         *)
(* Strings are sequences of bytes (naturals 0..255).  Go's 0-based indices *)
(* are kept in the lexer state; input[i] of the source is l.input[i + 1].  *)
(* A token is a record [Type, Literal]; the AST is a tree of records that  *)
(* all carry a "kind" field.                                               *)
(***************************************************************************)
EXTENDS Integers, Sequences, FiniteSets, TLC

VARIABLES
    pc,        \* where the REPL is: scanned, lexing, parsing, returned, printed
    line,      \* the line the scanner handed to lexer.New
    l,         \* the token-printing REPL's lexer (first snapshot of the REPL)
    toks,      \* history: one record per NextToken call of that REPL
    p,         \* the parser (it owns its lexer, p.l)
    program,   \* the ast.Program under construction / returned
    out,       \* what the REPL wrote for this line
    round,     \* 1: a line of the input family, 2: the printed program fed back
    first      \* the line and the output of round 1

vars == <<pc, line, l, toks, p, program, out, round, first>>

-----------------------------------------------------------------------------
(* Bytes                                                                   *)

Ascii ==
    [c \in {"SP", "TAB", "LF", "CR", "=", "!", "+", "-", "*", "/", "<", ">",
            "(", ")", "{", "}", ",", ";", "_", "0", "5", "7", "9", "a", "z", "A",
            "Z", "x", "X", "b", "B", "o", "O", "e", "f", "i", "l", "n", "r",
            "s", "t", "u"} |->
        CASE c = "SP" -> 32 [] c = "TAB" -> 9 [] c = "LF" -> 10 [] c = "CR" -> 13
          [] c = "=" -> 61 [] c = "!" -> 33 [] c = "+" -> 43 [] c = "-" -> 45
          [] c = "*" -> 42 [] c = "/" -> 47 [] c = "<" -> 60 [] c = ">" -> 62
          [] c = "(" -> 40 [] c = ")" -> 41 [] c = "{" -> 123 [] c = "}" -> 125
          [] c = "," -> 44 [] c = ";" -> 59 [] c = "_" -> 95
          [] c = "0" -> 48 [] c = "5" -> 53 [] c = "7" -> 55 [] c = "9" -> 57
          [] c = "a" -> 97 [] c = "z" -> 122 [] c = "A" -> 65 [] c = "Z" -> 90
          [] c = "x" -> 120 [] c = "X" -> 88 [] c = "b" -> 98 [] c = "B" -> 66
          [] c = "o" -> 111 [] c = "O" -> 79
          [] c = "e" -> 101 [] c = "f" -> 102 [] c = "i" -> 105 [] c = "l" -> 108
          [] c = "n" -> 110 [] c = "r" -> 114 [] c = "s" -> 115 [] c = "t" -> 116
          [] c = "u" -> 117]

\* Go's string(ch) for a byte ch: the UTF-8 encoding of the code point ch,
\* one byte below 0x80 and two bytes from 0x80 on.
ByteToString(ch) ==
    IF ch < 128 THEN <<ch>> ELSE <<192 + (ch \div 64), 128 + (ch % 64)>>

\* s[from:to] of Go (0-based, to exclusive)
Slice(s, from, to) == SubSeq(s, from + 1, to)

-----------------------------------------------------------------------------
(* package token                                                           *)

TokenTypes ==
    {"ILLEGAL", "EOF", "IDENT", "INT", "ASSIGN", "PLUS", "MINUS", "BANG",
     "ASTERISK", "SLASH", "LT", "GT", "EQ", "NOT_EQ", "COMMA", "SEMICOLON",
     "LPAREN", "RPAREN", "LBRACE", "RBRACE", "FUNCTION", "LET", "TRUE",
     "FALSE", "IF", "ELSE", "RETURN"}

Token(type, literal) == [Type |-> type, Literal |-> literal]

KwFn == <<Ascii["f"], Ascii["n"]>>
KwLet == <<Ascii["l"], Ascii["e"], Ascii["t"]>>
KwTrue == <<Ascii["t"], Ascii["r"], Ascii["u"], Ascii["e"]>>
KwFalse == <<Ascii["f"], Ascii["a"], Ascii["l"], Ascii["s"], Ascii["e"]>>
KwIf == <<Ascii["i"], Ascii["f"]>>
KwElse == <<Ascii["e"], Ascii["l"], Ascii["s"], Ascii["e"]>>
KwReturn == <<Ascii["r"], Ascii["e"], Ascii["t"], Ascii["u"], Ascii["r"], Ascii["n"]>>

LookupIdent(ident) ==
    CASE ident = KwFn -> "FUNCTION"
      [] ident = KwLet -> "LET"
      [] ident = KwTrue -> "TRUE"
      [] ident = KwFalse -> "FALSE"
      [] ident = KwIf -> "IF"
      [] ident = KwElse -> "ELSE"
      [] ident = KwReturn -> "RETURN"
      [] OTHER -> "IDENT"

-----------------------------------------------------------------------------
(* package lexer                                                           *)

isLetter(ch) ==
    \/ (Ascii["a"] <= ch /\ ch <= Ascii["z"])
    \/ (Ascii["A"] <= ch /\ ch <= Ascii["Z"])
    \/ ch = Ascii["_"]

isDigit(ch) == Ascii["0"] <= ch /\ ch <= Ascii["9"]

isWhitespace(ch) ==
    ch = Ascii["SP"] \/ ch = Ascii["TAB"] \/ ch = Ascii["LF"] \/ ch = Ascii["CR"]

newToken(tokenType, ch) == Token(tokenType, ByteToString(ch))

readChar(lx) ==
    [lx EXCEPT !.ch = IF lx.readPosition >= Len(lx.input)
                      THEN 0
                      ELSE lx.input[lx.readPosition + 1],
               !.position = lx.readPosition,
               !.readPosition = lx.readPosition + 1]

\* a variant that looks at the current byte: l.input[l.position]
peekCharAtPosition(lx) ==
    IF lx.position >= Len(lx.input) THEN 0 ELSE lx.input[lx.position + 1]

peekChar(lx) ==
    IF lx.readPosition >= Len(lx.input) THEN 0 ELSE lx.input[lx.readPosition + 1]

\* a variant without the call of readChar that New makes
LexerNewWithoutReadChar(input) ==
    [input |-> input, position |-> 0, readPosition |-> 0, ch |-> 0]

LexerNew(input) ==
    readChar([input |-> input, position |-> 0, readPosition |-> 0, ch |-> 0])

RECURSIVE skipWhitespace(_)
skipWhitespace(lx) ==
    IF isWhitespace(lx.ch) THEN skipWhitespace(readChar(lx)) ELSE lx

RECURSIVE skipLetters(_)
skipLetters(lx) == IF isLetter(lx.ch) THEN skipLetters(readChar(lx)) ELSE lx

RECURSIVE skipDigits(_)
skipDigits(lx) == IF isDigit(lx.ch) THEN skipDigits(readChar(lx)) ELSE lx

\* both return the lexer after the run and the slice input[position:l.position]
SliceTo(lx, after) ==
    [l |-> after, s |-> Slice(lx.input, lx.position, after.position)]

readIdentifier(lx) == SliceTo(lx, skipLetters(lx))

readNumber(lx) == SliceTo(lx, skipDigits(lx))

\* a variant that goes on to the readChar the punctuators end with
IdentifierTokenThenReadChar(r) ==
    [l |-> readChar(r.l), tok |-> Token(LookupIdent(r.s), r.s)]

\* the two early returns of NextToken
IdentifierToken(r) == [l |-> r.l, tok |-> Token(LookupIdent(r.s), r.s)]

NumberToken(r) == [l |-> r.l, tok |-> Token("INT", r.s)]

\* the switch of NextToken on the single-character punctuators
PunctuatorType(ch) ==
    CASE ch = Ascii["+"] -> "PLUS"
      [] ch = Ascii["-"] -> "MINUS"
      [] ch = Ascii["*"] -> "ASTERISK"
      [] ch = Ascii["/"] -> "SLASH"
      [] ch = Ascii["<"] -> "LT"
      [] ch = Ascii[">"] -> "GT"
      [] ch = Ascii["("] -> "LPAREN"
      [] ch = Ascii[")"] -> "RPAREN"
      [] ch = Ascii["{"] -> "LBRACE"
      [] ch = Ascii["}"] -> "RBRACE"
      [] ch = Ascii[","] -> "COMMA"
      [] ch = Ascii[";"] -> "SEMICOLON"
      [] OTHER -> "none"

\* NextToken after its call of skipWhitespace: the lexer after the call
\* and the token returned
NextTokenSwitch(lx) ==
    CASE lx.ch = Ascii["="] ->
           IF peekChar(lx) = Ascii["="]
           THEN [l |-> readChar(readChar(lx)),
                 tok |-> Token("EQ", <<Ascii["="], Ascii["="]>>)]
           ELSE [l |-> readChar(lx), tok |-> newToken("ASSIGN", lx.ch)]
      [] lx.ch = Ascii["!"] ->
           IF peekChar(lx) = Ascii["="]
           THEN [l |-> readChar(readChar(lx)),
                 tok |-> Token("NOT_EQ", <<Ascii["!"], Ascii["="]>>)]
           ELSE [l |-> readChar(lx), tok |-> newToken("BANG", lx.ch)]
      [] PunctuatorType(lx.ch) # "none" ->
           [l |-> readChar(lx), tok |-> newToken(PunctuatorType(lx.ch), lx.ch)]
      [] lx.ch = 0 ->
           [l |-> readChar(lx), tok |-> Token("EOF", <<>>)]
      [] OTHER ->
           IF isLetter(lx.ch)
           THEN IdentifierToken(readIdentifier(lx))
           ELSE IF isDigit(lx.ch)
           THEN NumberToken(readNumber(lx))
           ELSE [l |-> readChar(lx), tok |-> newToken("ILLEGAL", lx.ch)]

NextToken(lx) == NextTokenSwitch(skipWhitespace(lx))

-----------------------------------------------------------------------------
(* package ast: nodes                                                      *)

\* A nil interface value (no dynamic type), and a nil pointer of type T; the
\* latter, stored in an interface, is an interface value that is not nil.
Nil == [kind |-> "nil", dyn |-> "none"]
NilPtr(T) == [kind |-> "nil", dyn |-> T]
IsNilInterface(x) == x.kind = "nil" /\ x.dyn = "none"
IsNilPointer(x) == x.kind = "nil"

\* slices: a nil slice and an allocated slice both range over their elements
NilSlice == [isNil |-> TRUE, elems |-> <<>>]
MakeSlice(elems) == [isNil |-> FALSE, elems |-> elems]
AppendSlice(s, x) == [isNil |-> FALSE, elems |-> Append(s.elems, x)]

Identifier(tok) == [kind |-> "Identifier", Token |-> tok, Value |-> tok.Literal]

-----------------------------------------------------------------------------
(* package parser (final snapshot)                                         *)

LOWEST == 1
EQUALS == 2
LESSGREATER == 3
SUM == 4
PRODUCT == 5
PREFIX == 6
CALL == 7

\* a variant of the precedences table without the entry of token.LPAREN
precedencesNoCall(type) ==
    CASE type \in {"EQ", "NOT_EQ"} -> EQUALS
      [] type \in {"LT", "GT"} -> LESSGREATER
      [] type \in {"PLUS", "MINUS"} -> SUM
      [] type \in {"SLASH", "ASTERISK"} -> PRODUCT
      [] OTHER -> 0

precedences(type) ==
    CASE type \in {"EQ", "NOT_EQ"} -> EQUALS
      [] type \in {"LT", "GT"} -> LESSGREATER
      [] type \in {"PLUS", "MINUS"} -> SUM
      [] type \in {"SLASH", "ASTERISK"} -> PRODUCT
      [] type = "LPAREN" -> CALL
      [] OTHER -> 0

\* the keys of the precedences map
HasPrecedence(type) == precedences(type) # 0

\* the kinds registered by registerPrefix / registerInfix in New
PrefixTypes ==
    {"IDENT", "INT", "BANG", "MINUS", "TRUE", "FALSE", "LPAREN", "IF", "FUNCTION"}

BinaryInfixTypes == {"PLUS", "MINUS", "SLASH", "ASTERISK", "EQ", "NOT_EQ", "LT", "GT"}

InfixTypes == BinaryInfixTypes \cup {"LPAREN"}

\* The number of nextToken calls after which a parse of this input is taken
\* to run without end: every loop and every recursion of the parser calls
\* nextToken, and a parse that ends makes at most two calls per input byte
\* plus a few at end of input.
CallBudget(input) == 3 * Len(input) + 8

Spent(q) == q.calls > CallBudget(q.l.input)

\* nextToken once p.l.NextToken() has returned r
NextTokenReturned(q, r) ==
    [q EXCEPT !.curToken = q.peekToken,
              !.peekToken = r.tok,
              !.l = r.l,
              !.calls = q.calls + 1]

nextToken(q) == NextTokenReturned(q, NextToken(q.l))

curTokenIs(q, t) == q.curToken.Type = t

peekTokenIs(q, t) == q.peekToken.Type = t

\* fmt.Sprintf(format, args...): the format with, in order, the token kinds
\* printed by %s and the literal printed by %q (in double quotes)
Sprintf(format, kinds, quoted) ==
    [format |-> format, kinds |-> kinds,
     quoted |-> IF quoted = <<>> THEN <<>> ELSE <<34>> \o quoted[1] \o <<34>>]

peekError(q, t) ==
    [q EXCEPT !.errors = Append(q.errors,
        Sprintf("expected next token to be %s, got %s instead",
                <<t, q.peekToken.Type>>, <<>>))]

\* a variant of noPrefixParseFnError that names the kind of peekToken
noPrefixParseFnErrorOfPeek(q, t) ==
    [q EXCEPT !.errors = Append(q.errors,
        Sprintf("no prefix parse function for %s found", <<q.peekToken.Type>>, <<>>))]

\* a variant that records nothing
noPrefixParseFnErrorSilent(q, t) == q

noPrefixParseFnError(q, t) ==
    [q EXCEPT !.errors = Append(q.errors,
        Sprintf("no prefix parse function for %s found", <<t>>, <<>>))]

\* a variant of expectPeek that records nothing when the check fails
expectPeekSilent(q, t) ==
    IF peekTokenIs(q, t)
    THEN [p |-> nextToken(q), ok |-> TRUE]
    ELSE [p |-> q, ok |-> FALSE]

expectPeek(q, t) ==
    IF peekTokenIs(q, t)
    THEN [p |-> nextToken(q), ok |-> TRUE]
    ELSE [p |-> peekError(q, t), ok |-> FALSE]

peekPrecedence(q) ==
    IF HasPrecedence(q.peekToken.Type) THEN precedences(q.peekToken.Type) ELSE LOWEST

curPrecedence(q) ==
    IF HasPrecedence(q.curToken.Type) THEN precedences(q.curToken.Type) ELSE LOWEST

\* the zero Token of a Parser that has read nothing yet
ZeroToken == Token("", <<>>)

\* returnSemicolons is no field of Parser: "for" is parseReturnStatement as
\* written; "if" stands for the variant that skips at most one semicolon
ParserNew(lx) ==
    nextToken(nextToken(
        [l |-> lx, errors |-> <<>>, curToken |-> ZeroToken,
         peekToken |-> ZeroToken, calls |-> 0, returnSemicolons |-> "for"]))

-----------------------------------------------------------------------------
(* strconv.ParseInt(s, 0, 64) on a literal of decimal digits               *)

MaxInt64Digits ==
    <<9, 2, 2, 3, 3, 7, 2, 0, 3, 6, 8, 5, 4, 7, 7, 5, 8, 0, 7>>

DigitsOf(s) == [i \in 1..Len(s) |-> s[i] - Ascii["0"]]

RECURSIVE StripZeros(_)
StripZeros(d) == IF d # <<>> /\ d[1] = 0 THEN StripZeros(Tail(d)) ELSE d

\* d <= e for two digit sequences of the same length
RECURSIVE DigitsLeq(_, _)
DigitsLeq(d, e) ==
    IF d = <<>> THEN TRUE
    ELSE IF d[1] # e[1] THEN d[1] < e[1]
    ELSE DigitsLeq(Tail(d), Tail(e))

RECURSIVE Horner(_, _, _)
Horner(d, base, acc) ==
    IF d = <<>> THEN acc ELSE Horner(Tail(d), base, acc * base + d[1])

\* what fits a model integer; a wider value is kept as its digits
NarrowDigits == 8

NumberOf(d, base) ==
    IF Len(d) <= NarrowDigits
    THEN [wide |-> FALSE, n |-> Horner(d, base, 0), base |-> 0, digits |-> <<>>]
    ELSE [wide |-> TRUE, n |-> 0, base |-> base, digits |-> d]

\* a variant that reads every literal in base 10: strconv.ParseInt(s, 10, 64)
ParseIntBase10(s) ==
    IF Len(StripZeros(DigitsOf(s))) > 19
           \/ (/\ Len(StripZeros(DigitsOf(s))) = 19
               /\ ~DigitsLeq(StripZeros(DigitsOf(s)), MaxInt64Digits))
    THEN [err |-> "range", value |-> NumberOf(<<>>, 10)]
    ELSE [err |-> "", value |-> NumberOf(StripZeros(DigitsOf(s)), 10)]

\* err is "" (nil), "syntax" (strconv.ErrSyntax) or "range" (strconv.ErrRange)
ParseInt(s) ==
    LET d == DigitsOf(s)
        base == IF d[1] = 0 THEN 8 ELSE 10
        body == IF d[1] = 0 THEN Tail(d) ELSE d
        sig == StripZeros(body)
    IN  IF \E i \in 1..Len(body) : body[i] >= base
        THEN [err |-> "syntax", value |-> NumberOf(<<>>, base)]
        ELSE IF base = 10 /\ (Len(sig) > 19 \/ (Len(sig) = 19 /\ ~DigitsLeq(sig, MaxInt64Digits)))
        THEN [err |-> "range", value |-> NumberOf(<<>>, base)]
        ELSE IF base = 8 /\ Len(sig) > 21
        THEN [err |-> "range", value |-> NumberOf(<<>>, base)]
        ELSE [err |-> "", value |-> NumberOf(sig, base)]

-----------------------------------------------------------------------------
(* The productions.  Each takes the parser q and returns the parser after  *)
(* the call (p) and the node returned (n).  A production is cut at its     *)
(* calls: XAfterY is the rest of production X once the call Y has returned *)
(* its result (the last parameter).  A Go loop is the recursive operator   *)
(* named after it.  parse(fn, q, a) is the call p.fn(a) of parseExpression, *)
(* parseBlockStatement or parseStatement; it is defined after them all.    *)

RECURSIVE parse(_, _, _)

\* "return nil" of a production that returns ast.Expression
Absent(q) == [p |-> q, n |-> Nil]

parseIdentifier(q) == [p |-> q, n |-> Identifier(q.curToken)]

parseBoolean(q) ==
    [p |-> q,
     n |-> [kind |-> "Boolean", Token |-> q.curToken, Value |-> curTokenIs(q, "TRUE")]]

IntegerAfterParseInt(q, r) ==
    IF r.err # ""
    THEN Absent([q EXCEPT !.errors = Append(q.errors,
                    Sprintf("could not parse %q as integer", <<>>,
                            <<q.curToken.Literal>>))])
    ELSE [p |-> q,
          n |-> [kind |-> "IntegerLiteral", Token |-> q.curToken, Value |-> r.value]]

parseIntegerLiteral(q) == IntegerAfterParseInt(q, ParseInt(q.curToken.Literal))

\* a variant that parses the operand of a prefix operator at LOWEST
PrefixOperandLowest == LOWEST

\* the right-binding power parsePrefixExpression passes for its operand
PrefixOperandPrecedence == PREFIX

PrefixAfterRight(tok, right) ==
    [p |-> right.p,
     n |-> [kind |-> "PrefixExpression", Token |-> tok,
            Operator |-> tok.Literal, Right |-> right.n]]

parsePrefixExpression(q) ==
    PrefixAfterRight(q.curToken,
                     parse("parseExpression", nextToken(q), PrefixOperandPrecedence))

\* the right-binding power parseInfixExpression passes for its right operand
InfixOperandPrecedence(q) == curPrecedence(q)

InfixAfterRight(tok, left, right) ==
    [p |-> right.p,
     n |-> [kind |-> "InfixExpression", Token |-> tok, Left |-> left,
            Operator |-> tok.Literal, Right |-> right.n]]

parseInfixExpression(q, left) ==
    InfixAfterRight(q.curToken, left,
                    parse("parseExpression", nextToken(q), InfixOperandPrecedence(q)))

GroupedAfterRParen(expression, e) ==
    IF ~e.ok THEN Absent(e.p) ELSE [p |-> e.p, n |-> expression]

GroupedAfterExpression(r) == GroupedAfterRParen(r.n, expectPeek(r.p, "RPAREN"))

parseGroupedExpression(q) ==
    GroupedAfterExpression(parse("parseExpression", nextToken(q), LOWEST))

IfExpressionOf(tok, condition, consequence, alternative) ==
    [kind |-> "IfExpression", Token |-> tok, Condition |-> condition,
     Consequence |-> consequence, Alternative |-> alternative]

IfAfterAlternative(tok, condition, consequence, alt) ==
    [p |-> alt.p, n |-> IfExpressionOf(tok, condition, consequence, alt.n)]

IfAfterElseLBrace(tok, condition, consequence, e) ==
    IF ~e.ok THEN Absent(e.p)
    ELSE IfAfterAlternative(tok, condition, consequence,
                            parse("parseBlockStatement", e.p, 0))

IfAfterConsequence(tok, condition, cons) ==
    IF peekTokenIs(cons.p, "ELSE")
    THEN IfAfterElseLBrace(tok, condition, cons.n,
                           expectPeek(nextToken(cons.p), "LBRACE"))
    ELSE [p |-> cons.p,
          n |-> IfExpressionOf(tok, condition, cons.n, NilPtr("*ast.BlockStatement"))]

IfAfterLBrace(tok, condition, e) ==
    IF ~e.ok THEN Absent(e.p)
    ELSE IfAfterConsequence(tok, condition, parse("parseBlockStatement", e.p, 0))

IfAfterRParen(tok, condition, e) ==
    IF ~e.ok THEN Absent(e.p)
    ELSE IfAfterLBrace(tok, condition, expectPeek(e.p, "LBRACE"))

IfAfterCondition(tok, cond) ==
    IfAfterRParen(tok, cond.n, expectPeek(cond.p, "RPAREN"))

IfAfterLParen(tok, e) ==
    IF ~e.ok THEN Absent(e.p)
    ELSE IfAfterCondition(tok, parse("parseExpression", nextToken(e.p), LOWEST))

parseIfExpression(q) == IfAfterLParen(q.curToken, expectPeek(q, "LPAREN"))

\* the loop "for p.peekTokenIs(token.COMMA)" of parseFunctionParameters;
\* q2 is the parser after the two nextToken calls of its body
RECURSIVE parseFunctionParametersLoop(_, _)
ParametersLoopBody(q2, identifiers) ==
    parseFunctionParametersLoop(q2, AppendSlice(identifiers, Identifier(q2.curToken)))

parseFunctionParametersLoop(q, identifiers) ==
    IF ~Spent(q) /\ peekTokenIs(q, "COMMA")
    THEN ParametersLoopBody(nextToken(nextToken(q)), identifiers)
    ELSE [p |-> q, n |-> identifiers]

ParametersAfterRParen(identifiers, e) ==
    IF ~e.ok THEN [p |-> e.p, n |-> NilSlice] ELSE [p |-> e.p, n |-> identifiers]

ParametersAfterLoop(r) == ParametersAfterRParen(r.n, expectPeek(r.p, "RPAREN"))

ParametersAfterNextToken(q1) ==
    ParametersAfterLoop(
        parseFunctionParametersLoop(q1, MakeSlice(<<Identifier(q1.curToken)>>)))

parseFunctionParameters(q) ==
    IF peekTokenIs(q, "RPAREN")
    THEN [p |-> nextToken(q), n |-> MakeSlice(<<>>)]
    ELSE ParametersAfterNextToken(nextToken(q))

FunctionAfterBody(tok, parameters, body) ==
    [p |-> body.p,
     n |-> [kind |-> "FunctionLiteral", Token |-> tok,
            Parameters |-> parameters, Body |-> body.n]]

FunctionAfterLBrace(tok, parameters, e) ==
    IF ~e.ok THEN Absent(e.p)
    ELSE FunctionAfterBody(tok, parameters, parse("parseBlockStatement", e.p, 0))

FunctionAfterParameters(tok, params) ==
    FunctionAfterLBrace(tok, params.n, expectPeek(params.p, "LBRACE"))

FunctionAfterLParen(tok, e) ==
    IF ~e.ok THEN Absent(e.p)
    ELSE FunctionAfterParameters(tok, parseFunctionParameters(e.p))

parseFunctionLiteral(q) == FunctionAfterLParen(q.curToken, expectPeek(q, "LPAREN"))

\* the loop "for p.peekTokenIs(token.COMMA)" of parseCallArguments
RECURSIVE parseCallArgumentsLoop(_, _)
ArgumentsLoopBody(r, args) == parseCallArgumentsLoop(r.p, AppendSlice(args, r.n))

parseCallArgumentsLoop(q, args) ==
    IF ~Spent(q) /\ peekTokenIs(q, "COMMA")
    THEN ArgumentsLoopBody(parse("parseExpression", nextToken(nextToken(q)), LOWEST),
                           args)
    ELSE [p |-> q, n |-> args]

ArgumentsAfterRParen(args, e) ==
    IF ~e.ok THEN [p |-> e.p, n |-> NilSlice] ELSE [p |-> e.p, n |-> args]

ArgumentsAfterLoop(r) == ArgumentsAfterRParen(r.n, expectPeek(r.p, "RPAREN"))

ArgumentsAfterFirst(a1) ==
    ArgumentsAfterLoop(parseCallArgumentsLoop(a1.p, MakeSlice(<<a1.n>>)))

parseCallArguments(q) ==
    IF peekTokenIs(q, "RPAREN")
    THEN [p |-> nextToken(q), n |-> MakeSlice(<<>>)]
    ELSE ArgumentsAfterFirst(parse("parseExpression", nextToken(q), LOWEST))

CallAfterArguments(tok, function, args) ==
    [p |-> args.p,
     n |-> [kind |-> "CallExpression", Token |-> tok,
            Function |-> function, Arguments |-> args.n]]

parseCallExpression(q, function) ==
    CallAfterArguments(q.curToken, function, parseCallArguments(q))

\* prefixParseFns[type]() and infixParseFns[type](left)
prefixFn(q) ==
    CASE q.curToken.Type = "IDENT" -> parseIdentifier(q)
      [] q.curToken.Type = "INT" -> parseIntegerLiteral(q)
      [] q.curToken.Type \in {"BANG", "MINUS"} -> parsePrefixExpression(q)
      [] q.curToken.Type \in {"TRUE", "FALSE"} -> parseBoolean(q)
      [] q.curToken.Type = "LPAREN" -> parseGroupedExpression(q)
      [] q.curToken.Type = "IF" -> parseIfExpression(q)
      [] q.curToken.Type = "FUNCTION" -> parseFunctionLiteral(q)

infixFn(q, left) ==
    IF q.curToken.Type = "LPAREN"
    THEN parseCallExpression(q, left)
    ELSE parseInfixExpression(q, left)

\* a variant of the loop condition that also goes on at equal precedence
ExpressionLoopConditionLeq(q, precedence) ==
    ~peekTokenIs(q, "SEMICOLON") /\ precedence <= peekPrecedence(q)

\* the condition of the loop of parseExpression
ExpressionLoopCondition(q, precedence) ==
    ~peekTokenIs(q, "SEMICOLON") /\ precedence < peekPrecedence(q)

RECURSIVE parseExpressionLoop(_, _, _)
ExpressionLoopBody(r, precedence) == parseExpressionLoop(r.p, r.n, precedence)

parseExpressionLoop(q, leftExpression, precedence) ==
    IF ~Spent(q) /\ ExpressionLoopCondition(q, precedence)
    THEN IF q.peekToken.Type \notin InfixTypes
         THEN [p |-> q, n |-> leftExpression]
         ELSE ExpressionLoopBody(infixFn(nextToken(q), leftExpression), precedence)
    ELSE [p |-> q, n |-> leftExpression]

parseExpression(q, precedence) ==
    IF Spent(q) THEN Absent(q)
    ELSE IF q.curToken.Type \notin PrefixTypes
    THEN Absent(noPrefixParseFnError(q, q.curToken.Type))
    ELSE ExpressionLoopBody(prefixFn(q), precedence)

\* "if p.peekTokenIs(token.SEMICOLON) { p.nextToken() }"
SkipSemicolon(q) == IF peekTokenIs(q, "SEMICOLON") THEN nextToken(q) ELSE q

LetAfterValue(tok, name, v) ==
    [p |-> SkipSemicolon(v.p),
     n |-> [kind |-> "LetStatement", Token |-> tok, Name |-> name, Value |-> v.n]]

\* parseLetStatement returns *ast.LetStatement: its "return nil" is a nil
\* pointer of that type
LetAfterAssign(tok, name, e) ==
    IF ~e.ok THEN [p |-> e.p, n |-> NilPtr("*ast.LetStatement")]
    ELSE LetAfterValue(tok, name, parse("parseExpression", nextToken(e.p), LOWEST))

LetAfterIdent(tok, e) ==
    IF ~e.ok THEN [p |-> e.p, n |-> NilPtr("*ast.LetStatement")]
    ELSE LetAfterAssign(tok, Identifier(e.p.curToken), expectPeek(e.p, "ASSIGN"))

parseLetStatement(q) == LetAfterIdent(q.curToken, expectPeek(q, "IDENT"))

\* the loop "for p.peekTokenIs(token.SEMICOLON)" of parseReturnStatement
\* a variant of the loop that goes on until curToken is a semicolon
RECURSIVE parseReturnStatementLoopToSemicolon(_)
parseReturnStatementLoopToSemicolon(q) ==
    IF ~Spent(q) /\ ~curTokenIs(q, "SEMICOLON")
    THEN parseReturnStatementLoopToSemicolon(nextToken(q))
    ELSE q

RECURSIVE parseReturnStatementLoop(_)
parseReturnStatementLoop(q) ==
    IF ~Spent(q) /\ peekTokenIs(q, "SEMICOLON")
    THEN parseReturnStatementLoop(nextToken(q))
    ELSE q

ReturnAfterValue(tok, v) ==
    [p |-> IF v.p.returnSemicolons = "for"
           THEN parseReturnStatementLoop(v.p)
           ELSE SkipSemicolon(v.p),
     n |-> [kind |-> "ReturnStatement", Token |-> tok, ReturnValue |-> v.n]]

parseReturnStatement(q) ==
    ReturnAfterValue(q.curToken, parse("parseExpression", nextToken(q), LOWEST))

ExpressionStatementAfterExpression(tok, e) ==
    [p |-> SkipSemicolon(e.p),
     n |-> [kind |-> "ExpressionStatement", Token |-> tok, Expression |-> e.n]]

parseExpressionStatement(q) ==
    ExpressionStatementAfterExpression(q.curToken, parse("parseExpression", q, LOWEST))

\* returns ast.Statement: the pointer each production returns, as an interface
parseStatement(q) ==
    CASE q.curToken.Type = "LET" -> parseLetStatement(q)
      [] q.curToken.Type = "RETURN" -> parseReturnStatement(q)
      [] OTHER -> parseExpressionStatement(q)

\* "if stmt != nil { statements = append(statements, stmt) }" on an interface
AppendStatement(statements, stmt) ==
    IF ~IsNilInterface(stmt) THEN Append(statements, stmt) ELSE statements

\* a variant of the loop condition that does not look for the end of input
BlockLoopConditionNoEOF(q) == ~curTokenIs(q, "RBRACE")

\* the condition of the loop of parseBlockStatement
BlockLoopCondition(q) == ~curTokenIs(q, "RBRACE") /\ ~curTokenIs(q, "EOF")

RECURSIVE parseBlockStatementLoop(_, _)
BlockLoopBody(r, statements) ==
    parseBlockStatementLoop(nextToken(r.p), AppendStatement(statements, r.n))

parseBlockStatementLoop(q, statements) ==
    IF ~Spent(q) /\ BlockLoopCondition(q)
    THEN BlockLoopBody(parse("parseStatement", q, 0), statements)
    ELSE [p |-> q, n |-> statements]

\* End and Next are no fields of ast.BlockStatement: they record curToken and
\* peekToken at the return of parseBlockStatement
BlockAfterLoop(tok, r) ==
    [p |-> r.p,
     n |-> [kind |-> "BlockStatement", Token |-> tok, Statements |-> r.n,
            End |-> r.p.curToken, Next |-> r.p.peekToken]]

parseBlockStatement(q) ==
    BlockAfterLoop(q.curToken, parseBlockStatementLoop(nextToken(q), <<>>))

parse(fn, q, a) ==
    CASE fn = "parseExpression" -> parseExpression(q, a)
      [] fn = "parseBlockStatement" -> parseBlockStatement(q)
      [] fn = "parseStatement" -> parseStatement(q)

\* one round of the loop of ParseProgram: the parser and the statements after it
ProgramLoopBody(r, statements) ==
    [p |-> nextToken(r.p), statements |-> AppendStatement(statements, r.n)]

\* ParseProgram from the parser q on: the parser and the statements at return
RECURSIVE ParseProgramLoop(_, _)
ParseProgramRound(r) == ParseProgramLoop(r.p, r.statements)

ParseProgramLoop(q, statements) ==
    IF ~Spent(q) /\ ~curTokenIs(q, "EOF")
    THEN ParseProgramRound(ProgramLoopBody(parse("parseStatement", q, 0), statements))
    ELSE [p |-> q, statements |-> statements]

ParseProgram(q) == ParseProgramLoop(q, <<>>)

-----------------------------------------------------------------------------
(* package ast: String()                                                   *)

RECURSIVE Concat(_)
Concat(ss) == IF ss = <<>> THEN <<>> ELSE Head(ss) \o Concat(Tail(ss))

\* strings.Join(ss, ", ")
RECURSIVE JoinComma(_)
JoinComma(ss) ==
    IF ss = <<>> THEN <<>>
    ELSE IF Len(ss) = 1 THEN ss[1]
    ELSE ss[1] \o <<Ascii[","], Ascii["SP"]>> \o JoinComma(Tail(ss))

\* a variant of CallExpression.String() that leaves the argument list open
CallExpressionStringUnclosed(function, args) ==
    function \o <<Ascii["("]>> \o JoinComma(args)

\* CallExpression.String() over the strings of its function and arguments
CallExpressionString(function, args) ==
    function \o <<Ascii["("]>> \o JoinComma(args) \o <<Ascii[")"]>>

\* String() of a node; a method call through a nil interface or a field
\* read through a nil pointer panics (Panics below), and yields <<>> here
RECURSIVE String(_)
String(n) ==
    CASE n.kind = "nil" -> <<>>
      [] n.kind = "Identifier" -> n.Value
      [] n.kind = "Boolean" -> n.Token.Literal
      [] n.kind = "IntegerLiteral" -> n.Token.Literal
      [] n.kind = "PrefixExpression" ->
           <<Ascii["("]>> \o n.Operator \o String(n.Right) \o <<Ascii[")"]>>
      [] n.kind = "InfixExpression" ->
           <<Ascii["("]>> \o String(n.Left) \o <<Ascii["SP"]>> \o n.Operator
               \o <<Ascii["SP"]>> \o String(n.Right) \o <<Ascii[")"]>>
      [] n.kind = "IfExpression" ->
           KwIf \o String(n.Condition) \o <<Ascii["SP"]>> \o String(n.Consequence)
               \o (IF ~IsNilPointer(n.Alternative)
                   THEN KwElse \o <<Ascii["SP"]>> \o String(n.Alternative)
                   ELSE <<>>)
      [] n.kind = "FunctionLiteral" ->
           n.Token.Literal \o <<Ascii["("]>>
               \o JoinComma([i \in 1..Len(n.Parameters.elems) |->
                                String(n.Parameters.elems[i])])
               \o <<Ascii[")"], Ascii["SP"]>> \o String(n.Body)
      [] n.kind = "CallExpression" ->
           CallExpressionString(String(n.Function),
                                [i \in 1..Len(n.Arguments.elems) |->
                                    String(n.Arguments.elems[i])])
      [] n.kind = "LetStatement" ->
           n.Token.Literal \o <<Ascii["SP"]>> \o String(n.Name)
               \o <<Ascii["SP"], Ascii["="], Ascii["SP"]>>
               \o (IF ~IsNilInterface(n.Value) THEN String(n.Value) ELSE <<>>)
               \o <<Ascii[";"]>>
      [] n.kind = "ReturnStatement" ->
           n.Token.Literal \o <<Ascii["SP"]>>
               \o (IF ~IsNilInterface(n.ReturnValue) THEN String(n.ReturnValue) ELSE <<>>)
               \o <<Ascii[";"]>>
      [] n.kind = "ExpressionStatement" ->
           IF ~IsNilInterface(n.Expression) THEN String(n.Expression) ELSE <<>>
      [] n.kind = "BlockStatement" ->
           Concat([i \in 1..Len(n.Statements) |-> String(n.Statements[i])])

\* whether String() of the node dereferences nil
RECURSIVE Panics(_)
Panics(n) ==
    CASE n.kind = "nil" -> TRUE
      [] n.kind \in {"Identifier", "Boolean", "IntegerLiteral"} -> FALSE
      [] n.kind = "PrefixExpression" -> Panics(n.Right)
      [] n.kind = "InfixExpression" -> Panics(n.Left) \/ Panics(n.Right)
      [] n.kind = "IfExpression" ->
           \/ Panics(n.Condition)
           \/ Panics(n.Consequence)
           \/ (~IsNilPointer(n.Alternative) /\ Panics(n.Alternative))
      [] n.kind = "FunctionLiteral" ->
           \/ \E i \in 1..Len(n.Parameters.elems) : Panics(n.Parameters.elems[i])
           \/ Panics(n.Body)
      [] n.kind = "CallExpression" ->
           \/ Panics(n.Function)
           \/ \E i \in 1..Len(n.Arguments.elems) : Panics(n.Arguments.elems[i])
      [] n.kind = "LetStatement" ->
           Panics(n.Name) \/ (~IsNilInterface(n.Value) /\ Panics(n.Value))
      [] n.kind = "ReturnStatement" ->
           ~IsNilInterface(n.ReturnValue) /\ Panics(n.ReturnValue)
      [] n.kind = "ExpressionStatement" ->
           ~IsNilInterface(n.Expression) /\ Panics(n.Expression)
      [] n.kind = "BlockStatement" ->
           \E i \in 1..Len(n.Statements) : Panics(n.Statements[i])

\* (*Program).String() and whether it panics
ProgramString(prog) ==
    Concat([i \in 1..Len(prog.Statements) |-> String(prog.Statements[i])])

ProgramPanics(prog) == \E i \in 1..Len(prog.Statements) : Panics(prog.Statements[i])

-----------------------------------------------------------------------------
(* The lines the scanner hands to the REPL                                 *)

MaxLineLen == 3
MaxWords == 3
MaxCallsAfterEOF == 2

\* all sequences over S of length at most n
SeqsUpTo(S, n) == UNION {[1..k -> S] : k \in 0..n}

\* bytes of every class NextToken tells apart: NUL, white space, letters, a
\* digit, the two bytes with lookahead, a punctuator, and bytes it does not
\* know, below and from 0x80 on
LexerAlphabet ==
    {0, Ascii["SP"], Ascii["LF"], Ascii["a"], Ascii["_"], Ascii["7"], Ascii["="],
     Ascii["!"], Ascii["+"], 64, 200, 255}

LexerLines == SeqsUpTo(LexerAlphabet, MaxLineLen)

Spell(w) ==
    CASE w = "a" -> <<Ascii["a"]>>
      [] w = "b" -> <<Ascii["b"]>>
      [] w = "x" -> <<Ascii["x"]>>
      [] w = "7" -> <<Ascii["7"]>>
      [] w = "5" -> <<Ascii["5"]>>
      [] w = "90" -> <<Ascii["9"], Ascii["0"]>>
      [] w = "09" -> <<Ascii["0"], Ascii["9"]>>
      [] w = "+" -> <<Ascii["+"]>>
      [] w = "-" -> <<Ascii["-"]>>
      [] w = "*" -> <<Ascii["*"]>>
      [] w = "/" -> <<Ascii["/"]>>
      [] w = "<" -> <<Ascii["<"]>>
      [] w = ">" -> <<Ascii[">"]>>
      [] w = "==" -> <<Ascii["="], Ascii["="]>>
      [] w = "!=" -> <<Ascii["!"], Ascii["="]>>
      [] w = "!" -> <<Ascii["!"]>>
      [] w = "=" -> <<Ascii["="]>>
      [] w = "(" -> <<Ascii["("]>>
      [] w = ")" -> <<Ascii[")"]>>
      [] w = "{" -> <<Ascii["{"]>>
      [] w = "}" -> <<Ascii["}"]>>
      [] w = "," -> <<Ascii[","]>>
      [] w = ";" -> <<Ascii[";"]>>
      [] w = "NUL" -> <<0>>
      [] w = "fn" -> KwFn
      [] w = "let" -> KwLet
      [] w = "true" -> KwTrue
      [] w = "false" -> KwFalse
      [] w = "if" -> KwIf
      [] w = "else" -> KwElse
      [] w = "return" -> KwReturn

\* the words of a line, separated by one space
RECURSIVE Words(_)
Words(ws) ==
    IF ws = <<>> THEN <<>>
    ELSE IF Len(ws) = 1 THEN Spell(ws[1])
    ELSE Spell(ws[1]) \o <<Ascii["SP"]>> \o Words(Tail(ws))

BinaryOperators == {"+", "-", "*", "/", "<", ">", "==", "!="}
Operands == {"a", "7"}

\* every short line over the words of the language
Vocabulary ==
    {"a", "7", "+", "*", "==", "-", "!", "(", ")", "{", "}", ";", ",", "=",
     "let", "return", "if", "else", "fn", "true"}

ShortLines == {Words(ws) : ws \in SeqsUpTo(Vocabulary, MaxWords)}

\* x op1 y op2 z
InfixLines ==
    {Words(<<x, op1, y, op2, z>>) :
        x \in Operands, op1 \in BinaryOperators, y \in Operands,
        op2 \in BinaryOperators, z \in Operands}

\* a prefix operator before an operand, an operator and an operand
PrefixLines ==
    {Words(<<pre, x, op, y>>) :
        pre \in {"-", "!"}, x \in Operands, op \in BinaryOperators, y \in Operands}
    \cup {Words(<<p1, p2, x>>) : p1 \in {"-", "!"}, p2 \in {"-", "!"}, x \in Operands}

\* calls beside a binary or a prefix operator, and argument lists
CallLines ==
    {Words(<<x, op, "b", "(", y, ")">>) :
        x \in Operands, op \in BinaryOperators, y \in Operands}
    \cup {Words(<<"b", "(", y, ")", op, x>>) :
        x \in Operands, op \in BinaryOperators, y \in Operands}
    \cup {Words(<<pre, "a", "(", y, ")">>) : pre \in {"-", "!"}, y \in Operands}
    \cup {Words(<<"a", "(", x, ",", y, ",", z, ")">>) :
        x \in {"a", "b", "7"}, y \in {"a", "b", "7"}, z \in {"a", "b", "7"}}
    \cup {Words(<<"a", "(", x, op, y, ",", z, ")">>) :
        x \in Operands, op \in BinaryOperators, y \in Operands, z \in Operands}

\* the line "let x 5;"
LetX5 == Words(<<"let", "x", "5">>) \o Spell(";")

\* statements: let, return and expression statements one after another
StatementLines ==
    {LetX5}
    \cup
    {Words(<<"let", "x", "=", x, s1>>) : x \in Operands, s1 \in {"x", ";", "let"}}
    \cup {Words(<<"let", "x", y, ";">>) : y \in {"7", "a", "(", "let", ";"}}
    \cup {Words(<<"let", y, "=", "7", ";">>) : y \in {"7", "=", "let", "("}}
    \cup {Words(<<"let", "x", "=", x, ";", "let", y, "=", "a", ";">>) :
             x \in Operands, y \in {"b", "7"}}
    \cup {Words(<<"return", x, s1, s2, y>>) :
             x \in Operands, s1 \in {";", "+"}, s2 \in {";", "a"}, y \in {";", "7"}}
    \cup {Words(<<x, s1, y, s2, z>>) :
             x \in Operands \cup {"true", "09"}, s1 \in {";", "-", "("},
             y \in Operands \cup {"let"}, s2 \in {";", ")", "="}, z \in Operands}
    \cup {Words(<<"(", x, op, y, ")", op2, z>>) :
             x \in Operands, op \in BinaryOperators, y \in Operands,
             op2 \in {"*", ")", ";"}, z \in Operands}

\* if expressions and function literals, whole and cut short
BlockLines ==
    {Words(<<"if", "(", "a", ")", "{", y, t1, t2, t3, "}">>) :
        y \in Operands, t1 \in {"}", ";"}, t2 \in {"else", "}", "a"}, t3 \in {"{", "b"}}
    \cup {Words(<<"if", "(", x, op, y, ")", "{", z, "}", "else", "{", "b", "}">>) :
        x \in Operands, op \in {"<", "=="}, y \in Operands, z \in Operands}
    \cup {Words(<<"if", t1, "a", t2, t3, "b", t4>>) :
        t1 \in {"(", "a"}, t2 \in {")", "}"}, t3 \in {"{", "("}, t4 \in {"}", ";", "else"}}
    \cup {Words(<<"fn", "(", x, t1, y, t2, "{", z, t3>>) :
        x \in {"a", "7"}, t1 \in {",", ")"}, y \in {"b", ")", "{"},
        t2 \in {")", "{"}, z \in {"a", "}"}, t3 \in {"}", ";"}}
    \cup {Words(<<"fn", "(", ")", "{", x, t1, t2, y, t3>>) :
        x \in Operands, t1 \in {"}", ";"}, t2 \in {"(", "}"}, y \in Operands,
        t3 \in {")", "}"}}
    \cup {Words(<<"fn", "(", "a", ",", "b", ")", "{", "a", "+", "b", ";", "}", "(",
                  "7", ",", "a", ")">>)}

\* a NUL byte inside the line
NulLines ==
    {Words(<<x, "NUL", y>>) : x \in {"a", "let", "-", "("}, y \in {"b", ";", "+"}}
    \cup {Words(<<"if", "(", "a", ")", "{", "b", t1, t2, "else", "{", "a", "}">>) :
              t1 \in {"}", "NUL", ";"}, t2 \in {"}", "NUL", ";"}}

\* a line of decimal digits
DigitLine(ds) == [i \in 1..Len(ds) |-> Ascii["0"] + ds[i]]

\* integer literals: short ones with and without a leading 0, and the ones
\* on either side of the largest int64, in base 10 and in base 8
IntegerLines ==
    {DigitLine(ds) : ds \in SeqsUpTo({0, 1, 7, 8, 9}, MaxLineLen) \ {<<>>}}
    \cup {DigitLine(MaxInt64Digits),
          DigitLine(<<9, 2, 2, 3, 3, 7, 2, 0, 3, 6, 8, 5, 4, 7, 7, 5, 8, 0, 8>>),
          DigitLine(<<0, 0>> \o MaxInt64Digits),
          DigitLine(<<1>> \o [i \in 1..19 |-> 0]),
          DigitLine(<<0>> \o [i \in 1..21 |-> 7]),
          DigitLine(<<0, 1>> \o [i \in 1..21 |-> 0]),
          DigitLine(<<0, 0, 7>> \o [i \in 1..20 |-> 0])}

ParserLines ==
    ShortLines \cup InfixLines \cup PrefixLines \cup CallLines
        \cup StatementLines \cup BlockLines \cup NulLines \cup IntegerLines

-----------------------------------------------------------------------------
(* package repl                                                            *)

IdleLexer == LexerNew(<<>>)
IdleParser == ParserNew(IdleLexer)
EmptyProgram == [Statements |-> <<>>]
NoOutput == [kind |-> "none", text |-> <<>>, errors |-> <<>>]
NoFirst == [line |-> <<>>, out |-> NoOutput, program |-> EmptyProgram]

\* --- the REPL that prints tokens (first snapshot): Start, lines 18-35

InitLexer ==
    /\ pc = "scanned"
    /\ line \in LexerLines
    /\ l = IdleLexer
    /\ toks = <<>>
    /\ p = IdleParser
    /\ program = EmptyProgram
    /\ out = NoOutput
    /\ round = 1
    /\ first = NoFirst

\* l := lexer.New(line)
LexerStart ==
    /\ pc = "scanned"
    /\ pc' = "lexing"
    /\ l' = LexerNew(line)
    /\ UNCHANGED <<line, toks, p, program, out, round, first>>

EOFsReturned(h) == Cardinality({i \in 1..Len(h) : h[i].tok.Type = "EOF"})

\* tok = l.NextToken(); the REPL stops calling at the first EOF, the parser's
\* nextToken goes on calling after it, as this action does
LexerNextToken ==
    /\ pc = "lexing"
    /\ EOFsReturned(toks) <= MaxCallsAfterEOF
    /\ \E r \in {NextToken(l)} :
           /\ l' = r.l
           /\ toks' = Append(toks, [tok |-> r.tok,
                                    from |-> l.position,
                                    start |-> skipWhitespace(l).position,
                                    to |-> r.l.position])
    /\ UNCHANGED <<pc, line, p, program, out, round, first>>

NextLexer == LexerStart \/ LexerNextToken

SpecLexer == InitLexer /\ [][NextLexer]_vars

\* --- the REPL that parses (final snapshot): Start, lines 13-43

Init ==
    /\ pc = "scanned"
    /\ line \in ParserLines
    /\ l = IdleLexer
    /\ toks = <<>>
    /\ p = IdleParser
    /\ program = EmptyProgram
    /\ out = NoOutput
    /\ round = 1
    /\ first = NoFirst

\* l := lexer.New(line); p := parser.New(l); and the head of ParseProgram
ParserStart ==
    /\ pc = "scanned"
    /\ pc' = "parsing"
    /\ p' = ParserNew(LexerNew(line))
    /\ program' = EmptyProgram
    /\ UNCHANGED <<line, l, toks, out, round, first>>

\* one round of the loop of ParseProgram
ParseProgramStep ==
    /\ pc = "parsing"
    /\ ~Spent(p)
    /\ ~curTokenIs(p, "EOF")
    /\ \E r \in {ProgramLoopBody(parse("parseStatement", p, 0), program.Statements)} :
           /\ program' = [program EXCEPT !.Statements = r.statements]
           /\ p' = r.p
    /\ UNCHANGED <<pc, line, l, toks, out, round, first>>

\* the loop of ParseProgram ends: return program
ParseProgramReturn ==
    /\ pc = "parsing"
    /\ curTokenIs(p, "EOF")
    /\ pc' = "returned"
    /\ UNCHANGED <<line, l, toks, p, program, out, round, first>>

\* if len(p.Errors()) != 0 { printParserErrors(out, p.Errors()); continue }
PrintParserErrors ==
    /\ pc = "returned"
    /\ Len(p.errors) # 0
    /\ out' = [kind |-> "errors", text |-> <<>>, errors |-> p.errors]
    /\ pc' = "printed"
    /\ UNCHANGED <<line, l, toks, p, program, round, first>>

\* io.WriteString(out, program.String())
PrintProgram ==
    /\ pc = "returned"
    /\ Len(p.errors) = 0
    /\ IF ProgramPanics(program)
       THEN /\ pc' = "panic"
            /\ out' = out
       ELSE /\ pc' = "printed"
            /\ out' = [kind |-> "program", text |-> ProgramString(program),
                       errors |-> <<>>]
    /\ UNCHANGED <<line, l, toks, p, program, round, first>>

\* the next scanner.Scan() reads the line the REPL has just printed
ScanPrinted ==
    /\ pc = "printed"
    /\ round = 1
    /\ out.kind = "program"
    /\ first' = [line |-> line, out |-> out, program |-> program]
    /\ line' = out.text
    /\ round' = 2
    /\ pc' = "scanned"
    /\ UNCHANGED <<l, toks, p, program, out>>

Next ==
    \/ ParserStart
    \/ ParseProgramStep
    \/ ParseProgramReturn
    \/ PrintParserErrors
    \/ PrintProgram
    \/ ScanPrinted

Spec == Init /\ [][Next]_vars

-----------------------------------------------------------------------------
(* Properties of the lexer, over the calls recorded in toks                 *)

\* C1: for every input, bytes of value 0 included, repeated calls of
\* NextToken return EOF in the end (no later than the call after one call per
\* input byte), and once a call has returned EOF every later call returns
\* Token{EOF, ""}.
C1_EOFIsFinal ==
    /\ Len(toks) > Len(line) => \E i \in 1..Len(toks) : toks[i].tok.Type = "EOF"
    /\ \A i, j \in 1..Len(toks) :
           (i < j /\ toks[i].tok.Type = "EOF") => toks[j].tok = Token("EOF", <<>>)

\* the bytes NextToken has no case for
C9_Punctuators ==
    {Ascii["="], Ascii["+"], Ascii["-"], Ascii["!"], Ascii["/"], Ascii["*"],
     Ascii["<"], Ascii[">"], Ascii[";"], Ascii["("], Ascii[")"], Ascii[","],
     Ascii["{"], Ascii["}"]}

C9_Unknown(ch) ==
    /\ ch \notin {Ascii["SP"], Ascii["TAB"], Ascii["LF"], Ascii["CR"]}
    /\ ch \notin C9_Punctuators
    /\ ~(Ascii["a"] <= ch /\ ch <= Ascii["z"])
    /\ ~(Ascii["A"] <= ch /\ ch <= Ascii["Z"])
    /\ ch # Ascii["_"]
    /\ ~(Ascii["0"] <= ch /\ ch <= Ascii["9"])
    /\ ch # 0

\* C9: for every byte that is not white space, not a punctuator, not a letter
\* or underscore, not a digit and not 0 (every byte from 0x80 on included),
\* NextToken returns an ILLEGAL token whose literal is exactly that one byte,
\* and moves the cursor on by one byte.
C9_IllegalIsTheByte ==
    \A i \in 1..Len(toks) :
        (toks[i].start < Len(line) /\ C9_Unknown(line[toks[i].start + 1])) =>
            /\ toks[i].tok = Token("ILLEGAL", <<line[toks[i].start + 1]>>)
            /\ toks[i].to = toks[i].start + 1

\* the white space skipped before each token and the token's literal, call
\* after call
RECURSIVE C10_Spelled(_)
C10_Spelled(h) ==
    IF h = <<>> THEN <<>>
    ELSE Slice(line, h[1].from, h[1].start) \o h[1].tok.Literal
             \o C10_Spelled(Tail(h))

\* C10: the literals of the tokens returned up to the first EOF, with the
\* white space skipped before each of them, concatenate to exactly the input,
\* and the literal of each token before that EOF is the substring of the
\* input the cursor moved over for it.
C10_LiteralsSpellInput ==
    \A k \in 1..Len(toks) :
        (toks[k].tok.Type = "EOF" /\ \A i \in 1..(k - 1) : toks[i].tok.Type # "EOF") =>
            /\ C10_Spelled(SubSeq(toks, 1, k)) = line
            /\ \A i \in 1..(k - 1) :
                   toks[i].tok.Literal = Slice(line, toks[i].start, toks[i].to)

-----------------------------------------------------------------------------
(* Properties of the parser                                                 *)

\* C2: ParseProgram ends on every input: no loop of the parser (the driver,
\* blocks, infix operators, parameters, arguments, semicolons after return)
\* runs through the budget of nextToken calls, of which each round of each
\* loop makes one, so the driver goes on, whatever errors are recorded, until
\* it returns; and when it returns curToken is EOF.
C2_ParseProgramTerminates ==
    /\ ~Spent(p)
    /\ pc = "returned" => curTokenIs(p, "EOF")

\* ParseProgram has returned at EOF after it recorded two errors
C2_ReturnedAfterErrors ==
    /\ pc = "returned"
    /\ curTokenIs(p, "EOF")
    /\ Len(p.errors) >= 2
    /\ Len(program.Statements) >= 2

\* the precedence of the binary operators as the lattice
\* EQUALS < LESSGREATER < SUM < PRODUCT orders them
C3_Rank(op) ==
    CASE op \in {"==", "!="} -> 1
      [] op \in {"<", ">"} -> 2
      [] op \in {"+", "-"} -> 3
      [] op \in {"*", "/"} -> 4

\* (left op right), -operand and function(argument) as String() prints them
C3_Group(left, op, right) ==
    <<Ascii["("]>> \o left \o <<Ascii["SP"]>> \o Spell(op) \o <<Ascii["SP"]>>
        \o right \o <<Ascii[")"]>>

C4_Prefixed(op, right) == <<Ascii["("]>> \o Spell(op) \o right \o <<Ascii[")"]>>

C5_Called(function, argument) ==
    function \o <<Ascii["("]>> \o argument \o <<Ascii[")"]>>

\* the program is one expression statement, parsed without error
OneExpression ==
    /\ Len(p.errors) = 0
    /\ Len(program.Statements) = 1
    /\ program.Statements[1].kind = "ExpressionStatement"

TheExpression == program.Statements[1].Expression

C3_Expected(a, op1, b, op2, c) ==
    IF C3_Rank(op2) <= C3_Rank(op1)
    THEN C3_Group(C3_Group(Spell(a), op1, Spell(b)), op2, Spell(c))
    ELSE C3_Group(Spell(a), op1, C3_Group(Spell(b), op2, Spell(c)))

\* C3: for operands a, b, c and binary operators op1, op2, "a op1 b op2 c"
\* parses to ((a op1 b) op2 c) when the precedence of op2 is at most that of
\* op1, and to (a op1 (b op2 c)) when it is higher.
C3_PrecedenceAndAssociativity ==
    (pc = "returned" /\ line \in InfixLines) =>
        \A a \in Operands, op1 \in BinaryOperators, b \in Operands,
           op2 \in BinaryOperators, c \in Operands :
            line = Words(<<a, op1, b, op2, c>>) =>
                /\ OneExpression
                /\ TheExpression.kind = "InfixExpression"
                /\ TheExpression.Operator =
                       Spell(IF C3_Rank(op2) <= C3_Rank(op1) THEN op2 ELSE op1)
                /\ String(TheExpression) = C3_Expected(a, op1, b, op2, c)

\* "a + 7 + a" has been parsed to ((a + 7) + a) and "a + 7 * a" to (a + (7 * a))
C3_BothShapesParsed ==
    /\ pc = "returned"
    /\ \/ /\ line = Words(<<"a", "+", "7", "+", "a">>)
          /\ TheExpression.Left.kind = "InfixExpression"
       \/ /\ line = Words(<<"a", "+", "7", "*", "a">>)
          /\ TheExpression.Right.kind = "InfixExpression"

\* C4: the operand of a prefix operator is parsed at PREFIX and takes no
\* binary operator after it: "-a op b" parses to ((-a) op b) and "!-a" to
\* (!(-a)); PREFIX is the precedence of no token kind.
C4_PrefixOperand ==
    /\ \A t \in TokenTypes : precedences(t) # PREFIX
    /\ (pc = "returned" /\ line \in PrefixLines) =>
        /\ \A pre \in {"-", "!"}, x \in Operands, op \in BinaryOperators,
              y \in Operands :
               line = Words(<<pre, x, op, y>>) =>
                   /\ OneExpression
                   /\ TheExpression.kind = "InfixExpression"
                   /\ TheExpression.Left.kind = "PrefixExpression"
                   /\ String(TheExpression) =
                          C3_Group(C4_Prefixed(pre, Spell(x)), op, Spell(y))
        /\ \A p1 \in {"-", "!"}, p2 \in {"-", "!"}, x \in Operands :
               line = Words(<<p1, p2, x>>) =>
                   /\ OneExpression
                   /\ TheExpression.kind = "PrefixExpression"
                   /\ TheExpression.Right.kind = "PrefixExpression"
                   /\ String(TheExpression) =
                          C4_Prefixed(p1, C4_Prefixed(p2, Spell(x)))

\* "- a * 7" has been parsed to ((-a) * 7)
C4_PrefixThenInfixParsed ==
    /\ pc = "returned"
    /\ line = Words(<<"-", "a", "*", "7">>)
    /\ TheExpression.kind = "InfixExpression"
    /\ TheExpression.Left.kind = "PrefixExpression"

\* C5: "(" after an expression binds at CALL, tighter than every binary and
\* prefix operator: "a op b(c)" parses to (a op b(c)), "b(c) op a" to
\* (b(c) op a), "-a(b)" to (-a(b)), and the arguments of a call are in
\* source order.
C5_CallBinding ==
    (pc = "returned" /\ line \in CallLines) =>
        /\ \A x \in Operands, op \in BinaryOperators, y \in Operands :
               /\ line = Words(<<x, op, "b", "(", y, ")">>) =>
                      /\ OneExpression
                      /\ TheExpression.kind = "InfixExpression"
                      /\ TheExpression.Right.kind = "CallExpression"
                      /\ String(TheExpression) =
                             C3_Group(Spell(x), op, C5_Called(Spell("b"), Spell(y)))
               /\ line = Words(<<"b", "(", y, ")", op, x>>) =>
                      /\ OneExpression
                      /\ TheExpression.kind = "InfixExpression"
                      /\ TheExpression.Left.kind = "CallExpression"
                      /\ String(TheExpression) =
                             C3_Group(C5_Called(Spell("b"), Spell(y)), op, Spell(x))
        /\ \A pre \in {"-", "!"}, y \in Operands :
               line = Words(<<pre, "a", "(", y, ")">>) =>
                   /\ OneExpression
                   /\ TheExpression.kind = "PrefixExpression"
                   /\ TheExpression.Right.kind = "CallExpression"
                   /\ String(TheExpression) =
                          C4_Prefixed(pre, C5_Called(Spell("a"), Spell(y)))
        /\ \A x \in {"a", "b", "7"}, y \in {"a", "b", "7"}, z \in {"a", "b", "7"} :
               line = Words(<<"a", "(", x, ",", y, ",", z, ")">>) =>
                   /\ OneExpression
                   /\ TheExpression.kind = "CallExpression"
                   /\ ~TheExpression.Arguments.isNil
                   /\ [i \in 1..Len(TheExpression.Arguments.elems) |->
                          String(TheExpression.Arguments.elems[i])]
                        = <<Spell(x), Spell(y), Spell(z)>>

\* "- a ( 7 )" has been parsed to (-a(7)) and "a ( b , 7 , a )" to a call of
\* three arguments
C5_CallsParsed ==
    /\ pc = "returned"
    /\ \/ /\ line = Words(<<"-", "a", "(", "7", ")">>)
          /\ TheExpression.Right.kind = "CallExpression"
       \/ /\ line = Words(<<"a", "(", "b", ",", "7", ",", "a", ")">>)
          /\ Len(TheExpression.Arguments.elems) = 3

\* the diagnostic of the failed ASSIGN check of "let x 5;"
C6_Diagnostic ==
    Sprintf("expected next token to be %s, got %s instead", <<"ASSIGN", "INT">>, <<>>)

\* C6 as stated: for "let x 5;" ParseProgram records the diagnostic "expected
\* next token to be ASSIGN, got INT instead" and returns a Program whose
\* statements are empty.
C6_StatementsEmpty ==
    (pc = "returned" /\ line = LetX5) =>
        /\ p.errors = <<C6_Diagnostic>>
        /\ program.Statements = <<>>

\* C6 as the code has it: for "let x 5;" ParseProgram records exactly the
\* diagnostic "expected next token to be ASSIGN, got INT instead", and the
\* statements of the Program are not empty: the driver goes on at "5", and
\* the last statement is the expression statement of the integer 5.
C6_DiagnosticAndResumption ==
    (pc = "returned" /\ line = LetX5) =>
        /\ p.errors = <<C6_Diagnostic>>
        /\ Len(program.Statements) > 0
        /\ program.Statements[Len(program.Statements)].kind = "ExpressionStatement"
        /\ program.Statements[Len(program.Statements)].Expression.kind
               = "IntegerLiteral"
        /\ ~program.Statements[Len(program.Statements)].Expression.Value.wide
        /\ program.Statements[Len(program.Statements)].Expression.Value.n = 5

\* ParseProgram has returned from "let x 5;" with one error
C6_LetX5Parsed ==
    /\ pc = "returned"
    /\ line = LetX5
    /\ Len(p.errors) = 1

\* no statement below the node is absent, and no let statement lacks its name
RECURSIVE C7_Sound(_)
C7_Sound(n) ==
    CASE n.kind = "nil" -> TRUE
      [] n.kind \in {"Identifier", "Boolean", "IntegerLiteral"} -> TRUE
      [] n.kind = "PrefixExpression" -> C7_Sound(n.Right)
      [] n.kind = "InfixExpression" -> C7_Sound(n.Left) /\ C7_Sound(n.Right)
      [] n.kind = "IfExpression" ->
           C7_Sound(n.Condition) /\ C7_Sound(n.Consequence) /\ C7_Sound(n.Alternative)
      [] n.kind = "FunctionLiteral" -> C7_Sound(n.Body)
      [] n.kind = "CallExpression" ->
           /\ C7_Sound(n.Function)
           /\ \A i \in 1..Len(n.Arguments.elems) : C7_Sound(n.Arguments.elems[i])
      [] n.kind = "LetStatement" -> ~IsNilPointer(n.Name) /\ C7_Sound(n.Value)
      [] n.kind = "ReturnStatement" -> C7_Sound(n.ReturnValue)
      [] n.kind = "ExpressionStatement" -> C7_Sound(n.Expression)
      [] n.kind = "BlockStatement" ->
           \A i \in 1..Len(n.Statements) :
               ~IsNilPointer(n.Statements[i]) /\ C7_Sound(n.Statements[i])

\* C7: after ParseProgram, no element of Program.statements or of the
\* statements of a block is an absent statement, and every let statement
\* there has a name: a let that fails its IDENT or ASSIGN check adds nothing.
C7_AbsentStatementsSkipped ==
    pc = "returned" =>
        \A i \in 1..Len(program.Statements) :
            ~IsNilPointer(program.Statements[i]) /\ C7_Sound(program.Statements[i])

\* the node holds no if expression, function literal or block
RECURSIVE C8_Plain(_)
C8_Plain(n) ==
    CASE n.kind = "nil" -> TRUE
      [] n.kind \in {"Identifier", "Boolean", "IntegerLiteral"} -> TRUE
      [] n.kind = "PrefixExpression" -> C8_Plain(n.Right)
      [] n.kind = "InfixExpression" -> C8_Plain(n.Left) /\ C8_Plain(n.Right)
      [] n.kind \in {"IfExpression", "FunctionLiteral", "BlockStatement"} -> FALSE
      [] n.kind = "CallExpression" ->
           /\ C8_Plain(n.Function)
           /\ \A i \in 1..Len(n.Arguments.elems) : C8_Plain(n.Arguments.elems[i])
      [] n.kind = "LetStatement" -> C8_Plain(n.Value)
      [] n.kind = "ReturnStatement" -> C8_Plain(n.ReturnValue)
      [] n.kind = "ExpressionStatement" -> C8_Plain(n.Expression)

\* a string without its parentheses
C8_Unparenthesised(s) ==
    SelectSeq(s, LAMBDA ch : ch \notin {Ascii["("], Ascii[")"]})

\* C8 as stated: when a parse leaves no errors, parsing Program.String()
\* again leaves no errors and prints the same string, up to parentheses,
\* whatever statements and expressions the program holds.
C8_RoundTripOfEveryProgram ==
    (round = 2 /\ pc = "returned") =>
        /\ Len(p.errors) = 0
        /\ C8_Unparenthesised(ProgramString(program))
               = C8_Unparenthesised(first.out.text)

\* C8 as the code has it: when a parse leaves no errors and a Program of at
\* most one statement that holds no if expression and no function literal,
\* parsing Program.String() again leaves no errors and prints exactly the
\* same string.
C8_RoundTripOfPlainStatement ==
    (/\ round = 2
     /\ pc = "returned"
     /\ Len(first.program.Statements) <= 1
     /\ \A i \in 1..Len(first.program.Statements) :
            C8_Plain(first.program.Statements[i])) =>
        /\ Len(p.errors) = 0
        /\ ~ProgramPanics(program)
        /\ ProgramString(program) = first.out.text

\* the printed string of a call with two arguments has been parsed again
C8_CallParsedAgain ==
    /\ round = 2
    /\ pc = "returned"
    /\ Len(first.program.Statements) = 1
    /\ first.program.Statements[1].kind = "ExpressionStatement"
    /\ first.program.Statements[1].Expression.kind = "CallExpression"
    /\ Len(first.program.Statements[1].Expression.Arguments.elems) >= 2
    /\ line = first.out.text

\* every if expression below the node has its consequence, and has its
\* alternative exactly when "}" closed the consequence and ELSE came next
RECURSIVE C11_IfsComplete(_)
C11_IfsComplete(n) ==
    CASE n.kind = "nil" -> TRUE
      [] n.kind \in {"Identifier", "Boolean", "IntegerLiteral"} -> TRUE
      [] n.kind = "PrefixExpression" -> C11_IfsComplete(n.Right)
      [] n.kind = "InfixExpression" ->
           C11_IfsComplete(n.Left) /\ C11_IfsComplete(n.Right)
      [] n.kind = "IfExpression" ->
           /\ ~IsNilPointer(n.Consequence)
           /\ ~IsNilPointer(n.Alternative) <=>
                  (n.Consequence.End.Type = "RBRACE" /\ n.Consequence.Next.Type = "ELSE")
           /\ C11_IfsComplete(n.Condition)
           /\ C11_IfsComplete(n.Consequence)
           /\ C11_IfsComplete(n.Alternative)
      [] n.kind = "FunctionLiteral" -> C11_IfsComplete(n.Body)
      [] n.kind = "CallExpression" ->
           /\ C11_IfsComplete(n.Function)
           /\ \A i \in 1..Len(n.Arguments.elems) : C11_IfsComplete(n.Arguments.elems[i])
      [] n.kind = "LetStatement" -> C11_IfsComplete(n.Value)
      [] n.kind = "ReturnStatement" -> C11_IfsComplete(n.ReturnValue)
      [] n.kind = "ExpressionStatement" -> C11_IfsComplete(n.Expression)
      [] n.kind = "BlockStatement" ->
           \A i \in 1..Len(n.Statements) : C11_IfsComplete(n.Statements[i])

\* C11: every if expression of a returned Program has a consequence block,
\* and has an alternative if and only if an ELSE token came right after the
\* "}" that closed the consequence.
C11_AlternativeIffElseAfterBrace ==
    pc = "returned" =>
        \A i \in 1..Len(program.Statements) : C11_IfsComplete(program.Statements[i])

\* the diagnostic is among the errors of the parser
HasError(msg) == \E i \in 1..Len(p.errors) : p.errors[i] = msg

\* an expression statement without its expression
C12_Bare(n) == n.kind = "ExpressionStatement" /\ IsNilInterface(n.Expression)

\* the statement began at a token without prefix handler, and the diagnostic
\* of that token was recorded
C12_PrefixMiss(n) ==
    /\ n.Token.Type \notin PrefixTypes
    /\ HasError(Sprintf("no prefix parse function for %s found", <<n.Token.Type>>, <<>>))

\* the statement began at an INT whose literal did not parse, or at "(", "if"
\* or "fn", and a diagnostic was recorded
C12_PrefixFailed(n) ==
    \/ /\ n.Token.Type = "INT"
       /\ HasError(Sprintf("could not parse %q as integer", <<>>, <<n.Token.Literal>>))
    \/ /\ n.Token.Type \in {"LPAREN", "IF", "FUNCTION"}
       /\ Len(p.errors) > 0

\* as stated: top is whether the node is a statement of the Program itself
RECURSIVE C12_OnlyTopLevelMiss(_, _)
C12_OnlyTopLevelMiss(n, top) ==
    CASE n.kind = "nil" -> TRUE
      [] n.kind \in {"Identifier", "Boolean", "IntegerLiteral"} -> TRUE
      [] n.kind = "PrefixExpression" -> C12_OnlyTopLevelMiss(n.Right, FALSE)
      [] n.kind = "InfixExpression" ->
           C12_OnlyTopLevelMiss(n.Left, FALSE) /\ C12_OnlyTopLevelMiss(n.Right, FALSE)
      [] n.kind = "IfExpression" ->
           /\ C12_OnlyTopLevelMiss(n.Condition, FALSE)
           /\ C12_OnlyTopLevelMiss(n.Consequence, FALSE)
           /\ C12_OnlyTopLevelMiss(n.Alternative, FALSE)
      [] n.kind = "FunctionLiteral" -> C12_OnlyTopLevelMiss(n.Body, FALSE)
      [] n.kind = "CallExpression" ->
           /\ C12_OnlyTopLevelMiss(n.Function, FALSE)
           /\ \A i \in 1..Len(n.Arguments.elems) :
                  C12_OnlyTopLevelMiss(n.Arguments.elems[i], FALSE)
      [] n.kind = "LetStatement" -> C12_OnlyTopLevelMiss(n.Value, FALSE)
      [] n.kind = "ReturnStatement" -> C12_OnlyTopLevelMiss(n.ReturnValue, FALSE)
      [] n.kind = "ExpressionStatement" ->
           /\ C12_Bare(n) => (top /\ C12_PrefixMiss(n))
           /\ C12_OnlyTopLevelMiss(n.Expression, FALSE)
      [] n.kind = "BlockStatement" ->
           \A i \in 1..Len(n.Statements) : C12_OnlyTopLevelMiss(n.Statements[i], FALSE)

\* as the code has it, at top level and in blocks alike
RECURSIVE C12_MissOrFailure(_)
C12_MissOrFailure(n) ==
    CASE n.kind = "nil" -> TRUE
      [] n.kind \in {"Identifier", "Boolean", "IntegerLiteral"} -> TRUE
      [] n.kind = "PrefixExpression" -> C12_MissOrFailure(n.Right)
      [] n.kind = "InfixExpression" ->
           C12_MissOrFailure(n.Left) /\ C12_MissOrFailure(n.Right)
      [] n.kind = "IfExpression" ->
           /\ C12_MissOrFailure(n.Condition)
           /\ C12_MissOrFailure(n.Consequence)
           /\ C12_MissOrFailure(n.Alternative)
      [] n.kind = "FunctionLiteral" -> C12_MissOrFailure(n.Body)
      [] n.kind = "CallExpression" ->
           /\ C12_MissOrFailure(n.Function)
           /\ \A i \in 1..Len(n.Arguments.elems) : C12_MissOrFailure(n.Arguments.elems[i])
      [] n.kind = "LetStatement" -> C12_MissOrFailure(n.Value)
      [] n.kind = "ReturnStatement" -> C12_MissOrFailure(n.ReturnValue)
      [] n.kind = "ExpressionStatement" ->
           /\ C12_Bare(n) => (C12_PrefixMiss(n) \/ C12_PrefixFailed(n))
           /\ C12_MissOrFailure(n.Expression)
      [] n.kind = "BlockStatement" ->
           \A i \in 1..Len(n.Statements) : C12_MissOrFailure(n.Statements[i])

\* C12 as stated: in a returned Program an expression statement lacks its
\* expression only if it is a statement of the Program itself whose first
\* token had no prefix handler, with the diagnostic of that token recorded;
\* no other failure and no statement of a block leaves one.
C12_AbsentOnlyAtTopLevelPrefixMiss ==
    pc = "returned" =>
        \A i \in 1..Len(program.Statements) :
            C12_OnlyTopLevelMiss(program.Statements[i], TRUE)

\* C12 as the code has it: in a returned Program an expression statement, of
\* the Program or of a block, lacks its expression only if its first token
\* had no prefix handler (its "no prefix parse function" diagnostic is
\* recorded), or is an INT whose literal did not parse (its "could not parse"
\* diagnostic is recorded), or is "(", "if" or "fn" (some diagnostic is
\* recorded); one that begins with an identifier, a boolean, "!" or "-" always
\* has its expression.
C12_AbsentOnlyAfterMissOrFailure ==
    pc = "returned" =>
        \A i \in 1..Len(program.Statements) : C12_MissOrFailure(program.Statements[i])

\* a returned Program holds the expression statement of an INT that did not
\* parse, and one holds an if expression whose block has a bare statement
C12_BareStatementsReturned ==
    /\ pc = "returned"
    /\ \E i \in 1..Len(program.Statements) :
           \/ /\ C12_Bare(program.Statements[i])
              /\ program.Statements[i].Token.Type = "INT"
           \/ /\ program.Statements[i].kind = "ExpressionStatement"
              /\ program.Statements[i].Expression.kind = "IfExpression"
              /\ \E j \in 1..Len(program.Statements[i].Expression.Consequence.Statements) :
                     C12_Bare(program.Statements[i].Expression.Consequence.Statements[j])

\* no function literal below the node lacks its parameter list and no call
\* its argument list: the lists are nil only after their RPAREN check failed
RECURSIVE C13_ListsPresent(_)
C13_ListsPresent(n) ==
    CASE n.kind = "nil" -> TRUE
      [] n.kind \in {"Identifier", "Boolean", "IntegerLiteral"} -> TRUE
      [] n.kind = "PrefixExpression" -> C13_ListsPresent(n.Right)
      [] n.kind = "InfixExpression" ->
           C13_ListsPresent(n.Left) /\ C13_ListsPresent(n.Right)
      [] n.kind = "IfExpression" ->
           /\ C13_ListsPresent(n.Condition)
           /\ C13_ListsPresent(n.Consequence)
           /\ C13_ListsPresent(n.Alternative)
      [] n.kind = "FunctionLiteral" -> ~n.Parameters.isNil /\ C13_ListsPresent(n.Body)
      [] n.kind = "CallExpression" ->
           /\ ~n.Arguments.isNil
           /\ C13_ListsPresent(n.Function)
           /\ \A i \in 1..Len(n.Arguments.elems) : C13_ListsPresent(n.Arguments.elems[i])
      [] n.kind = "LetStatement" -> C13_ListsPresent(n.Value)
      [] n.kind = "ReturnStatement" -> C13_ListsPresent(n.ReturnValue)
      [] n.kind = "ExpressionStatement" -> C13_ListsPresent(n.Expression)
      [] n.kind = "BlockStatement" ->
           \A i \in 1..Len(n.Statements) : C13_ListsPresent(n.Statements[i])

\* C13: a failing expectPeek(kind) appends exactly one "expected next token
\* to be ..." message and leaves curToken and peekToken as they are, and the
\* production that called it yields absent: also after the RPAREN check of a
\* parameter list or an argument list, so that no function literal and no
\* call is emitted after such a failure.
C13_FailedExpectPeekYieldsAbsent ==
    /\ \A t \in TokenTypes :
           ~peekTokenIs(p, t) =>
               /\ ~expectPeek(p, t).ok
               /\ expectPeek(p, t).p =
                      [p EXCEPT !.errors = Append(p.errors,
                          Sprintf("expected next token to be %s, got %s instead",
                                  <<t, p.peekToken.Type>>, <<>>))]
    /\ pc = "returned" =>
           \A i \in 1..Len(program.Statements) : C13_ListsPresent(program.Statements[i])

\* the kinds of the tokens of the input up to the first EOF
RECURSIVE C14_KindsFrom(_)
C14_KindsAfter(r) ==
    IF r.tok.Type = "EOF" THEN <<>> ELSE <<r.tok.Type>> \o C14_KindsFrom(r.l)

C14_KindsFrom(lx) == C14_KindsAfter(NextToken(lx))

C14_NoSemicolonTwice(kinds) ==
    \A i \in 1..(Len(kinds) - 1) :
        ~(kinds[i] = "SEMICOLON" /\ kinds[i + 1] = "SEMICOLON")

\* ParseProgram of the line by the variant whose parseReturnStatement has
\* "if" for its "for"
C14_IfVariant ==
    ParseProgram([ParserNew(LexerNew(line)) EXCEPT !.returnSemicolons = "if"])

\* C14 as stated: for every input, the parser as written and the variant that
\* skips at most one semicolon after a return value return the same Program
\* (the same String()) and the same errors.
C14_LoopNotObservable ==
    pc = "returned" =>
        /\ ProgramString([Statements |-> C14_IfVariant.statements])
               = ProgramString(program)
        /\ C14_IfVariant.p.errors = p.errors

\* C14 as the code has it: for every input whose tokens hold no two
\* semicolons in a row, the parser as written and the variant that skips at
\* most one semicolon after a return value return the same statements and the
\* same errors; with two semicolons after a return value the loop is
\* observable.
C14_SameWithoutSemicolonTwice ==
    (pc = "returned" /\ C14_NoSemicolonTwice(C14_KindsFrom(LexerNew(line)))) =>
        /\ C14_IfVariant.statements = program.Statements
        /\ C14_IfVariant.p.errors = p.errors

\* a return statement with its semicolon has been parsed, and another
\* statement after it
C14_ReturnWithSemicolonParsed ==
    /\ pc = "returned"
    /\ line = Words(<<"return", "7", ";", "a", ";">>)
    /\ Len(program.Statements) = 2
    /\ program.Statements[1].kind = "ReturnStatement"

\* the digits of an INT literal, its base (8 after a leading 0) and the
\* digits that follow the leading 0
C15_Digits(lit) == [i \in 1..Len(lit) |-> lit[i] - Ascii["0"]]

C15_Base(lit) == IF lit[1] = Ascii["0"] THEN 8 ELSE 10

C15_Numeral(lit) ==
    IF lit[1] = Ascii["0"] THEN Tail(C15_Digits(lit)) ELSE C15_Digits(lit)

RECURSIVE C15_Significant(_)
C15_Significant(d) ==
    IF d # <<>> /\ d[1] = 0 THEN C15_Significant(Tail(d)) ELSE d

\* d > e for digit sequences of one length
RECURSIVE C15_Greater(_, _)
C15_Greater(d, e) ==
    /\ d # <<>>
    /\ \/ d[1] > e[1]
       \/ d[1] = e[1] /\ C15_Greater(Tail(d), Tail(e))

\* the value is above 2^63 - 1: 9223372036854775807, or 21 digits 7 in base 8
C15_OutOfRange(lit) ==
    IF C15_Base(lit) = 8
    THEN Len(C15_Significant(C15_Numeral(lit))) > 21
    ELSE \/ Len(C15_Significant(C15_Numeral(lit))) > 19
         \/ /\ Len(C15_Significant(C15_Numeral(lit))) = 19
            /\ C15_Greater(C15_Significant(C15_Numeral(lit)),
                           <<9, 2, 2, 3, 3, 7, 2, 0, 3, 6, 8, 5, 4, 7, 7, 5, 8, 0, 7>>)

\* a leading 0 followed by a digit 8 or 9
C15_NotOctal(lit) ==
    C15_Base(lit) = 8 /\ \E i \in 1..Len(C15_Numeral(lit)) : C15_Numeral(lit)[i] > 7

\* the number the digits denote in the base
RECURSIVE C15_Denoted(_, _)
C15_Denoted(d, base) ==
    IF d = <<>> THEN 0
    ELSE d[Len(d)] + base * C15_Denoted(SubSeq(d, 1, Len(d) - 1), base)

\* parseIntegerLiteral at the parser p fails: absent, and the one message
C15_Fails ==
    /\ IsNilInterface(parseIntegerLiteral(p).n)
    /\ parseIntegerLiteral(p).p =
           [p EXCEPT !.errors = Append(p.errors,
               Sprintf("could not parse %q as integer", <<>>, <<p.curToken.Literal>>))]

\* parseIntegerLiteral at the parser p yields the literal's number: a model
\* integer when it has at most NarrowDigits digits, else its digits
C15_Succeeds ==
    /\ parseIntegerLiteral(p).p = p
    /\ parseIntegerLiteral(p).n.kind = "IntegerLiteral"
    /\ parseIntegerLiteral(p).n.Token = p.curToken
    /\ IF Len(C15_Significant(C15_Numeral(p.curToken.Literal))) <= NarrowDigits
       THEN /\ ~parseIntegerLiteral(p).n.Value.wide
            /\ parseIntegerLiteral(p).n.Value.n =
                   C15_Denoted(C15_Significant(C15_Numeral(p.curToken.Literal)),
                               C15_Base(p.curToken.Literal))
       ELSE /\ parseIntegerLiteral(p).n.Value.wide
            /\ parseIntegerLiteral(p).n.Value.base = C15_Base(p.curToken.Literal)
            /\ parseIntegerLiteral(p).n.Value.digits =
                   C15_Significant(C15_Numeral(p.curToken.Literal))

\* C15 as stated: for every INT token parseIntegerLiteral records "could not
\* parse ... as integer" and returns absent exactly when the value of the
\* literal is outside the signed 64-bit range; otherwise it returns the
\* IntegerLiteral of the number the literal denotes and records nothing.
C15_ErrorIffOutOfRange ==
    curTokenIs(p, "INT") =>
        IF C15_OutOfRange(p.curToken.Literal) THEN C15_Fails ELSE C15_Succeeds

\* C15 as the code has it: parseIntegerLiteral records the error and returns
\* absent exactly when the literal has a leading 0 followed by a digit 8 or
\* 9, or its value is outside the signed 64-bit range; otherwise it returns
\* the IntegerLiteral of the number the literal denotes, in base 8 after a
\* leading 0 and in base 10 otherwise, and records nothing.
C15_ErrorIffNotOctalOrOutOfRange ==
    curTokenIs(p, "INT") =>
        IF C15_NotOctal(p.curToken.Literal) \/ C15_OutOfRange(p.curToken.Literal)
        THEN C15_Fails
        ELSE C15_Succeeds

\* "08" has been parsed with its error, and "017" to the number 15
C15_LeadingZeroParsed ==
    /\ pc = "returned"
    /\ \/ /\ line = DigitLine(<<0, 8>>)
          /\ Len(p.errors) = 1
          /\ C12_Bare(program.Statements[1])
       \/ /\ line = DigitLine(<<0, 1, 7>>)
          /\ Len(p.errors) = 0
          /\ program.Statements[1].Expression.Value.n = 15

-----------------------------------------------------------------------------
(* Further properties of the lexer, over the calls recorded in toks         *)

\* the byte at index i of the line, 0 from the end of the line on
C16_ByteAt(i) == IF i < Len(line) THEN line[i + 1] ELSE 0

C16_Two(ch) == IF ch = Ascii["="] THEN "EQ" ELSE "NOT_EQ"

C16_One(ch) == IF ch = Ascii["="] THEN "ASSIGN" ELSE "BANG"

\* C16: when the current byte is = or !, NextToken returns EQ "==" or NOT_EQ
\* "!=" and moves over both bytes if and only if the next byte is =;
\* otherwise it returns ASSIGN or BANG with the literal of one character and
\* moves over one byte, also when the byte is the last of the input; so
\* "===" gives EQ, ASSIGN and "!==" gives NOT_EQ, ASSIGN.
C16_OneByteLookahead ==
    /\ \A i \in 1..Len(toks) :
           C16_ByteAt(toks[i].start) \in {Ascii["="], Ascii["!"]} =>
               IF C16_ByteAt(toks[i].start + 1) = Ascii["="]
               THEN /\ toks[i].tok =
                           Token(C16_Two(C16_ByteAt(toks[i].start)),
                                 <<C16_ByteAt(toks[i].start), Ascii["="]>>)
                    /\ toks[i].to = toks[i].start + 2
               ELSE /\ toks[i].tok =
                           Token(C16_One(C16_ByteAt(toks[i].start)),
                                 <<C16_ByteAt(toks[i].start)>>)
                    /\ toks[i].to = toks[i].start + 1
    /\ (line = <<Ascii["="], Ascii["="], Ascii["="]>> /\ Len(toks) >= 2) =>
           toks[1].tok.Type = "EQ" /\ toks[2].tok.Type = "ASSIGN"
    /\ (line = <<Ascii["!"], Ascii["="], Ascii["="]>> /\ Len(toks) >= 2) =>
           toks[1].tok.Type = "NOT_EQ" /\ toks[2].tok.Type = "ASSIGN"

\* "!==" has been lexed to its end: NOT_EQ, then ASSIGN at the last byte
C16_BangEqEqLexed ==
    /\ line = <<Ascii["!"], Ascii["="], Ascii["="]>>
    /\ Len(toks) = 3
    /\ toks[1].tok = Token("NOT_EQ", <<Ascii["!"], Ascii["="]>>)
    /\ toks[2].tok = Token("ASSIGN", <<Ascii["="]>>)
    /\ toks[3].tok.Type = "EOF"

C17_Letters ==
    (Ascii["a"]..Ascii["z"]) \cup (Ascii["A"]..Ascii["Z"]) \cup {Ascii["_"]}

C17_Decimals == Ascii["0"]..Ascii["9"]

\* the end of the longest run of bytes of the class that starts at index i
C17_RunEnd(i, class) ==
    CHOOSE k \in i..Len(line) :
        /\ \A j \in (i + 1)..k : line[j] \in class
        /\ k = Len(line) \/ line[k + 1] \notin class

C17_Run(i, class) == Slice(line, i, C17_RunEnd(i, class))

C17_IsRun(t, type, class) ==
    /\ t.tok = Token(type, C17_Run(t.start, class))
    /\ t.to = C17_RunEnd(t.start, class)

\* C17: an identifier token is the longest run of letters and underscores,
\* an INT token the longest run of decimal digits, from the cursor on; a
\* digit never extends an identifier; after either token the cursor is on
\* the first byte after the run, and the next token starts there unless that
\* byte is white space.
C17_MaximalRuns ==
    \A i \in 1..Len(toks) :
        /\ C16_ByteAt(toks[i].start) \in C17_Letters =>
               C17_IsRun(toks[i], LookupIdent(C17_Run(toks[i].start, C17_Letters)),
                         C17_Letters)
        /\ C16_ByteAt(toks[i].start) \in C17_Decimals =>
               C17_IsRun(toks[i], "INT", C17_Decimals)
        /\ (C16_ByteAt(toks[i].start) \in C17_Letters \cup C17_Decimals /\ i < Len(toks)) =>
               /\ toks[i + 1].from = toks[i].to
               /\ ~isWhitespace(C16_ByteAt(toks[i].to)) =>
                      toks[i + 1].start = toks[i].to

\* "a7" has been lexed to IDENT, INT, and "a+a" to IDENT, PLUS, IDENT
C17_RunsLexed ==
    \/ /\ line = <<Ascii["a"], Ascii["7"]>>
       /\ Len(toks) = 2
       /\ toks[1].tok = Token("IDENT", <<Ascii["a"]>>)
       /\ toks[2].tok = Token("INT", <<Ascii["7"]>>)
    \/ /\ line = <<Ascii["a"], Ascii["+"], Ascii["a"]>>
       /\ Len(toks) = 3
       /\ toks[1].tok.Type = "IDENT"
       /\ toks[2].tok.Type = "PLUS"
       /\ toks[3].tok = Token("IDENT", <<Ascii["a"]>>)

\* C18: after New and after every call of NextToken, the calls after EOF
\* included: readPosition = position + 1; ch is input[position] when
\* position < len(input) and 0 otherwise; and the indices the lexer reads
\* the input at are within the input: readChar and peekChar read
\* input[readPosition] under their test readPosition < len(input), and
\* readPosition is not negative; readIdentifier and readNumber slice the
\* input from where the token starts to the cursor, both within
\* 0..len(input).
C18_IndicesWithinInput ==
    pc = "lexing" =>
        /\ l.input = line
        /\ l.position >= 0
        /\ l.readPosition = l.position + 1
        /\ l.ch = C16_ByteAt(l.position)
        /\ \A i \in 1..Len(toks) :
               /\ 0 <= toks[i].from
               /\ toks[i].from <= toks[i].start
               /\ toks[i].start <= toks[i].to
               /\ C16_ByteAt(toks[i].start) \in C17_Letters \cup C17_Decimals =>
                      /\ toks[i].to <= Len(line)
                      /\ toks[i].tok.Literal = Slice(line, toks[i].start, toks[i].to)

\* calls have been made after EOF, with the cursor beyond the end of an
\* input that ends in an identifier
C18_CalledAfterEOF ==
    /\ pc = "lexing"
    /\ EOFsReturned(toks) >= 2
    /\ l.position > Len(line)
    /\ Len(line) > 0
    /\ toks[1].tok.Type = "IDENT"
    /\ toks[1].to = Len(line)

-----------------------------------------------------------------------------
(* Further properties of the parser                                         *)

\* the node is present and so is every mandatory child below it; the
\* alternative of an if expression may be absent
RECURSIVE C19_Whole(_)
C19_Whole(n) ==
    CASE n.kind = "nil" -> FALSE
      [] n.kind \in {"Identifier", "Boolean", "IntegerLiteral"} -> TRUE
      [] n.kind = "PrefixExpression" -> C19_Whole(n.Right)
      [] n.kind = "InfixExpression" -> C19_Whole(n.Left) /\ C19_Whole(n.Right)
      [] n.kind = "IfExpression" ->
           /\ C19_Whole(n.Condition)
           /\ C19_Whole(n.Consequence)
           /\ n.Alternative.kind # "nil" => C19_Whole(n.Alternative)
      [] n.kind = "FunctionLiteral" ->
           /\ ~n.Parameters.isNil
           /\ \A i \in 1..Len(n.Parameters.elems) : C19_Whole(n.Parameters.elems[i])
           /\ C19_Whole(n.Body)
      [] n.kind = "CallExpression" ->
           /\ C19_Whole(n.Function)
           /\ ~n.Arguments.isNil
           /\ \A i \in 1..Len(n.Arguments.elems) : C19_Whole(n.Arguments.elems[i])
      [] n.kind = "LetStatement" -> C19_Whole(n.Name) /\ C19_Whole(n.Value)
      [] n.kind = "ReturnStatement" -> C19_Whole(n.ReturnValue)
      [] n.kind = "ExpressionStatement" -> C19_Whole(n.Expression)
      [] n.kind = "BlockStatement" ->
           \A i \in 1..Len(n.Statements) : C19_Whole(n.Statements[i])

\* C19: when ParseProgram has returned with no error recorded, no mandatory
\* child is absent anywhere in the tree (statements of the program and of
\* blocks, name and value of let, value of return, expression of an
\* expression statement, operands of prefix and infix, condition and
\* consequence of if, parameters and body of a function literal, function and
\* arguments of a call), so that Program.String(), which the REPL calls in
\* this case only, dereferences no absent node.
C19_NoErrorsNoAbsentChild ==
    /\ (pc = "returned" /\ Len(p.errors) = 0) =>
           /\ \A i \in 1..Len(program.Statements) : C19_Whole(program.Statements[i])
           /\ ~ProgramPanics(program)
    /\ pc # "panic"

\* a function literal, an if expression and a call have been printed
C19_ProgramPrinted ==
    /\ pc = "printed"
    /\ out.kind = "program"
    /\ Len(program.Statements) = 1
    /\ program.Statements[1].kind = "ExpressionStatement"
    /\ program.Statements[1].Expression.kind = "CallExpression"
    /\ program.Statements[1].Expression.Arguments.elems # <<>>

\* every parameter of every function literal below the node was built from
\* an IDENT token
RECURSIVE C20_ParametersAreIdentifiers(_)
C20_ParametersAreIdentifiers(n) ==
    CASE n.kind = "nil" -> TRUE
      [] n.kind \in {"Identifier", "Boolean", "IntegerLiteral"} -> TRUE
      [] n.kind = "PrefixExpression" -> C20_ParametersAreIdentifiers(n.Right)
      [] n.kind = "InfixExpression" ->
           /\ C20_ParametersAreIdentifiers(n.Left)
           /\ C20_ParametersAreIdentifiers(n.Right)
      [] n.kind = "IfExpression" ->
           /\ C20_ParametersAreIdentifiers(n.Condition)
           /\ C20_ParametersAreIdentifiers(n.Consequence)
           /\ C20_ParametersAreIdentifiers(n.Alternative)
      [] n.kind = "FunctionLiteral" ->
           /\ \A i \in 1..Len(n.Parameters.elems) :
                  n.Parameters.elems[i].Token.Type = "IDENT"
           /\ C20_ParametersAreIdentifiers(n.Body)
      [] n.kind = "CallExpression" ->
           /\ C20_ParametersAreIdentifiers(n.Function)
           /\ \A i \in 1..Len(n.Arguments.elems) :
                  C20_ParametersAreIdentifiers(n.Arguments.elems[i])
      [] n.kind = "LetStatement" -> C20_ParametersAreIdentifiers(n.Value)
      [] n.kind = "ReturnStatement" -> C20_ParametersAreIdentifiers(n.ReturnValue)
      [] n.kind = "ExpressionStatement" -> C20_ParametersAreIdentifiers(n.Expression)
      [] n.kind = "BlockStatement" ->
           \A i \in 1..Len(n.Statements) : C20_ParametersAreIdentifiers(n.Statements[i])

\* C20: every element of the parameters of a function literal was built from
\* an IDENT token; a parameter list with another token in it records a
\* diagnostic and yields no function literal with the literal of that token
\* among its parameters.
C20_ParametersFromIdentTokens ==
    pc = "returned" =>
        \A i \in 1..Len(program.Statements) :
            C20_ParametersAreIdentifiers(program.Statements[i])

\* every block below the node ended on the token } (End is the token the
\* loop of parseBlockStatement stopped at)
RECURSIVE C21_BlocksClosed(_)
C21_BlocksClosed(n) ==
    CASE n.kind = "nil" -> TRUE
      [] n.kind \in {"Identifier", "Boolean", "IntegerLiteral"} -> TRUE
      [] n.kind = "PrefixExpression" -> C21_BlocksClosed(n.Right)
      [] n.kind = "InfixExpression" ->
           C21_BlocksClosed(n.Left) /\ C21_BlocksClosed(n.Right)
      [] n.kind = "IfExpression" ->
           /\ C21_BlocksClosed(n.Condition)
           /\ C21_BlocksClosed(n.Consequence)
           /\ C21_BlocksClosed(n.Alternative)
      [] n.kind = "FunctionLiteral" -> C21_BlocksClosed(n.Body)
      [] n.kind = "CallExpression" ->
           /\ C21_BlocksClosed(n.Function)
           /\ \A i \in 1..Len(n.Arguments.elems) : C21_BlocksClosed(n.Arguments.elems[i])
      [] n.kind = "LetStatement" -> C21_BlocksClosed(n.Value)
      [] n.kind = "ReturnStatement" -> C21_BlocksClosed(n.ReturnValue)
      [] n.kind = "ExpressionStatement" -> C21_BlocksClosed(n.Expression)
      [] n.kind = "BlockStatement" ->
           /\ n.End.Type = "RBRACE"
           /\ \A i \in 1..Len(n.Statements) : C21_BlocksClosed(n.Statements[i])

\* C21: when ParseProgram has returned with no error recorded, every block
\* opened by { (consequence and alternative of if, body of fn) was closed by
\* its }: a block that runs into EOF without its } records a diagnostic.
C21_UnclosedBlockIsDiagnosed ==
    (pc = "returned" /\ Len(p.errors) = 0) =>
        \A i \in 1..Len(program.Statements) : C21_BlocksClosed(program.Statements[i])

=============================================================================
